---- MODULE Spec2Model ----
(***************************************************************************)
(* Guesstimate agent: the LangGraph pipeline of GuesstimateSolver          *)
(* (agents/src/guesstimate_agent/agent.py) with its HTTP tool client and   *)
(* its expression extractor.                                               *)
(*                                                                         *)
(* Text is modelled by TLA+ strings: Len, \o and SubSeq act on them as on  *)
(* Python str.  A Python float is modelled by its repr, tagged "float".    *)
(***************************************************************************)
EXTENDS Integers, Sequences, FiniteSets, TLC

(***************************************************************************)
(* Text helpers (Python str operations used by the code)                   *)
(***************************************************************************)
Char(s, i) == SubSeq(s, i, i)

Digits == {"0", "1", "2", "3", "4", "5", "6", "7", "8", "9"}

\* \s of the re module and the characters str.strip() removes
Whitespace == {" ", "\t"}

\* The first k of lo..hi with P(k), 0 when there is none (lo >= 1)
First(lo, hi, P(_)) ==
    IF \E k \in lo..hi : P(k)
    THEN CHOOSE k \in lo..hi : P(k) /\ \A m \in lo..(k - 1) : ~P(m)
    ELSE 0

\* s.find(sub, i), counting from 1: 0 when sub does not occur from i on
FindFrom(s, sub, i) ==
    First(i, Len(s) - Len(sub) + 1, LAMBDA j : SubSeq(s, j, j + Len(sub) - 1) = sub)

Contains(s, sub) == FindFrom(s, sub, 1) # 0

RECURSIVE LStrip(_)
LStrip(s) ==
    IF Len(s) > 0 /\ Char(s, 1) \in Whitespace THEN LStrip(SubSeq(s, 2, Len(s)))
    ELSE s

RECURSIVE RStrip(_)
RStrip(s) ==
    IF Len(s) > 0 /\ Char(s, Len(s)) \in Whitespace
    THEN RStrip(SubSeq(s, 1, Len(s) - 1))
    ELSE s

\* str.strip()
Strip(s) == RStrip(LStrip(s))

\* first index >= i of s that holds no character of class (Len(s)+1 if none)
SkipClass(s, i, class) ==
    CHOOSE j \in i..(Len(s) + 1) :
        /\ j > Len(s) \/ Char(s, j) \notin class
        /\ \A k \in i..(j - 1) : Char(s, k) \in class

(***************************************************************************)
(* ExpressionExtractor: GuesstimateSolver._extract_expression              *)
(***************************************************************************)
\* Python's None
None == "None"

\* [\d\+\-\*/\(\)\.\s%sqrt]
EqualsClass ==
    Digits \cup Whitespace \cup {"+", "-", "*", "/", "(", ")", ".", "%", "s", "q", "r", "t"}

\* ([\d\+\-\*/\(\)\.\s%sqrt]+)\s*=  tried at index i: the index of the '=' of
\* the match, 0 if there is none.  The class holds \s and not '=', so the
\* greedy group runs to the first character outside the class, which must be
\* the '='; no shorter group can match.
EqualsMatchAt(s, i) ==
    LET j == SkipClass(s, i, EqualsClass)
    IN  IF j > i /\ j <= Len(s) /\ Char(s, j) = "=" THEN j ELSE 0

\* re.findall(equals_pattern, text): the groups of the non-overlapping
\* matches, left to right
RECURSIVE EqualsFindAll(_, _)
EqualsFindAll(s, i) ==
    LET k == First(i, Len(s), LAMBDA m : EqualsMatchAt(s, m) # 0)
    IN  IF k = 0 THEN <<>>
        ELSE <<SubSeq(s, k, EqualsMatchAt(s, k) - 1)>>
             \o EqualsFindAll(s, EqualsMatchAt(s, k) + 1)

EqualsOps == {"+", "*", "/", "sqrt"}

\* len(clean_match) > 1 and any(op in clean_match for op in ['+', '*', '/', 'sqrt'])
EqualsAccepts(clean) ==
    Len(clean) > 1 /\ \E op \in EqualsOps : Contains(clean, op)

\* the for loop over equals_matches: the first accepted match, stripped
RECURSIVE FirstAccepted(_)
FirstAccepted(matches) ==
    IF matches = <<>> THEN None
    ELSE IF EqualsAccepts(Strip(Head(matches))) THEN Strip(Head(matches))
    ELSE FirstAccepted(Tail(matches))

\* \d+(?:\.\d+)?  tried at index i: the index after the match, 0 if none
NumberEnd(s, i) ==
    LET a == SkipClass(s, i, Digits)
    IN  IF a = i THEN 0
        ELSE IF a <= Len(s) /\ Char(s, a) = "."
                  /\ SkipClass(s, a + 1, Digits) > a + 1
             THEN SkipClass(s, a + 1, Digits)
             ELSE a

BinaryOps == {"+", "-", "*", "/"}

\* \d+(?:\.\d+)?\s*[\+\-\*/]\s*\d+(?:\.\d+)?  tried at index i: the index
\* after the match, 0 if none
NumberMatchAt(s, i) ==
    LET a == NumberEnd(s, i)
    IN  IF a = 0 THEN 0
        ELSE LET b == SkipClass(s, a, Whitespace)
             IN  IF b > Len(s) \/ Char(s, b) \notin BinaryOps THEN 0
                 ELSE NumberEnd(s, SkipClass(s, b + 1, Whitespace))

\* number_matches[0] of re.findall(number_pattern, text), None if empty
NumberFirst(s, i) ==
    LET k == First(i, Len(s), LAMBDA m : NumberMatchAt(s, m) # 0)
    IN  IF k = 0 THEN None ELSE SubSeq(s, k, NumberMatchAt(s, k) - 1)

\* sqrt\(\d+(?:\.\d+)?\)  tried at index i: the index after the match, 0 if none
SqrtMatchAt(s, i) ==
    IF i + 4 > Len(s) \/ SubSeq(s, i, i + 4) # "sqrt(" THEN 0
    ELSE LET a == NumberEnd(s, i + 5)
         IN  IF a # 0 /\ a <= Len(s) /\ Char(s, a) = ")" THEN a + 1 ELSE 0

\* sqrt_matches[0] of re.findall(sqrt_pattern, text), None if empty
SqrtFirst(s, i) ==
    LET k == First(i, Len(s), LAMBDA m : SqrtMatchAt(s, m) # 0)
    IN  IF k = 0 THEN None ELSE SubSeq(s, k, SqrtMatchAt(s, k) - 1)

Family1(text) == FirstAccepted(EqualsFindAll(text, 1))
Family2(text) == LET m == NumberFirst(text, 1) IN IF m = None THEN None ELSE Strip(m)
Family3(text) == SqrtFirst(text, 1)

\* The families with the bare arithmetic fragment tried first
ExtractBareFirst(text) ==
    IF Family2(text) # None THEN Family2(text)
    ELSE IF Family1(text) # None THEN Family1(text)
    ELSE Family3(text)

\* _extract_expression(text)
ExtractExpression(text) ==
    IF Family1(text) # None THEN Family1(text)
    ELSE IF Family2(text) # None THEN Family2(text)
    ELSE Family3(text)

(***************************************************************************)
(* Numeric extraction of GuesstimateSolver._calculate_expression           *)
(***************************************************************************)
Signs == {"+", "-"}

\* [-+]?\d*\.?\d+  tried at index i: the index after the match, 0 if none.
\* A sign is taken when one is there (without it no digit can follow at i).
\* \d* is greedy; the '.' is taken when a digit follows it, and otherwise
\* \d* hands its last digit to \d+.
SignedNumberEnd(s, i) ==
    LET k == IF i <= Len(s) /\ Char(s, i) \in Signs THEN i + 1 ELSE i
        a == SkipClass(s, k, Digits)
        dot == a <= Len(s) /\ Char(s, a) = "." /\ SkipClass(s, a + 1, Digits) > a + 1
    IN  IF dot THEN SkipClass(s, a + 1, Digits)
        ELSE IF a > k THEN a
        ELSE 0

\* re.findall(r'[-+]?\d*\.?\d+', content)
RECURSIVE NumbersFindAll(_, _)
NumbersFindAll(s, i) ==
    LET k == First(i, Len(s), LAMBDA m : SignedNumberEnd(s, m) # 0)
    IN  IF k = 0 THEN <<>>
        ELSE <<SubSeq(s, k, SignedNumberEnd(s, k) - 1)>>
             \o NumbersFindAll(s, SignedNumberEnd(s, k))

RECURSIVE StripLeadingZeros(_)
StripLeadingZeros(s) ==
    IF Len(s) > 0 /\ Char(s, 1) = "0" THEN StripLeadingZeros(SubSeq(s, 2, Len(s)))
    ELSE s

RECURSIVE StripTrailingZeros(_)
StripTrailingZeros(s) ==
    IF Len(s) > 0 /\ Char(s, Len(s)) = "0"
    THEN StripTrailingZeros(SubSeq(s, 1, Len(s) - 1))
    ELSE s

OrZero(s) == IF s = "" THEN "0" ELSE s

\* A Python float, held as its repr, and a Python str, in one shape (the
\* values of result and final_estimate are one or the other)
PyFloat(r) == [py |-> "float", repr |-> r]
PyStr(s) == [py |-> "str", repr |-> s]

\* f"{v}" of a float or a str
Fmt(v) == v.repr

\* float(lexeme) for a lexeme of the signed-number pattern, as the repr of
\* the float: "14.0" for "14", "+14" and "14.00", "0.5" for ".5" (exact for
\* the short decimals of the model: below 1e16 and no smaller than 1e-4)
Float(lexeme) ==
    LET neg == Char(lexeme, 1) = "-"
        body == IF Char(lexeme, 1) \in Signs THEN SubSeq(lexeme, 2, Len(lexeme))
                ELSE lexeme
        dot == FindFrom(body, ".", 1)
        ip == IF dot = 0 THEN body ELSE SubSeq(body, 1, dot - 1)
        fp == IF dot = 0 THEN "" ELSE SubSeq(body, dot + 1, Len(body))
    IN  PyFloat((IF neg THEN "-" ELSE "") \o OrZero(StripLeadingZeros(ip))
                \o "." \o OrZero(StripTrailingZeros(fp)))

(***************************************************************************)
(* Python values used by the pipeline                                      *)
(***************************************************************************)
\* dict.get(k, default) on a dict held as a function
Get(d, k, default) == IF k \in DOMAIN d THEN d[k] ELSE default

\* A node that returns a new dict holding only the key it wrote
DictSetFresh(d, k, v) == (k :> v)

\* d[k] = v on a dict held as a function
DictSet(d, k, v) == (k :> v) @@ d

\* A dict whose insertion order matters (research_results), held as a
\* sequence of <<key, value>>: d[k] = v replaces the value of a key that is
\* there, at its place, and appends a new key
KeyIndex(d, k) ==
    IF \E i \in 1..Len(d) : d[i][1] = k
    THEN CHOOSE i \in 1..Len(d) : d[i][1] = k
    ELSE 0

\* d.setdefault(k, v): the value of the first assignment is kept
OrderedSetDefault(d, k, v) ==
    IF KeyIndex(d, k) # 0 THEN d ELSE Append(d, <<k, v>>)

\* research_results made anew in every pass of the loop
OrderedSetAnew(d, k, v) == <<<<k, v>>>>

OrderedSet(d, k, v) ==
    IF KeyIndex(d, k) # 0 THEN [d EXCEPT ![KeyIndex(d, k)] = <<k, v>>]
    ELSE Append(d, <<k, v>>)

Keys(d) == [i \in 1..Len(d) |-> d[i][1]]

\* for need in research_needs: (the loop without its [:3])
TakeAll(seq, n) == seq

\* seq[:n]
Take(seq, n) == SubSeq(seq, 1, IF Len(seq) < n THEN Len(seq) ELSE n)

\* s.split('\n')
RECURSIVE SplitLines(_)
SplitLines(s) ==
    LET n == FindFrom(s, "\n", 1)
    IN  IF n = 0 THEN <<s>>
        ELSE <<SubSeq(s, 1, n - 1)>> \o SplitLines(SubSeq(s, n + 1, Len(s)))

\* chr(10).join(lines)
RECURSIVE JoinLines(_)
JoinLines(lines) ==
    IF lines = <<>> THEN ""
    ELSE IF Len(lines) = 1 THEN lines[1]
    ELSE lines[1] \o "\n" \o JoinLines(Tail(lines))

\* A parsed JSON document: a dict (its items in d) or a value of another type
PyDict(d) == [py |-> "dict", d |-> d]
PyList == [py |-> "list", d |-> <<>>]

\* The text of a completion or of an HTTP body, held by what json.loads makes
\* of it: wellformed is FALSE for text json.loads rejects
JsonText(v) == [wellformed |-> TRUE, value |-> v]
NotJson == [wellformed |-> FALSE, value |-> PyList]

\* try: json.loads(content)
JsonLoads(content) ==
    IF content.wellformed THEN [raised |-> FALSE, value |-> content.value]
    ELSE [raised |-> TRUE, value |-> "Expecting value: line 1 column 1 (char 0)"]

(***************************************************************************)
(* ToolClient: GuesstimateSolver._call_http_tool                           *)
(***************************************************************************)
ServerUrl == "http://localhost:8000"

\* What client.post comes back with: a transport exception (timeout,
\* connection failure) or a response with a status and a body
Transport(msg) == [kind |-> "exception", msg |-> msg, status |-> 0, body |-> NotJson]
Response(status, body) == [kind |-> "response", msg |-> "", status |-> status, body |-> body]

\* str(e) of the HTTPStatusError response.raise_for_status() raises
StatusMessage(status, endpoint) ==
    (IF status = 404 THEN "Client error '404 Not Found'"
     ELSE "Server error '500 Internal Server Error'")
    \o " for url '" \o ServerUrl \o "/tools/" \o endpoint \o "'"

\* The body of the try block with result.get("success") in its test: an
\* envelope without the field is taken for a failure
HttpAttemptStrict(endpoint, reply) ==
    IF reply.kind = "exception"
    THEN [raised |-> TRUE, value |-> reply.msg]
    ELSE IF reply.status \notin 200..299
    THEN [raised |-> TRUE, value |-> StatusMessage(reply.status, endpoint)]
    ELSE IF JsonLoads(reply.body).raised
    THEN JsonLoads(reply.body)
    ELSE LET result == JsonLoads(reply.body).value
         IN  IF result.py # "dict"
             THEN [raised |-> TRUE, value |-> "'list' object has no attribute 'get'"]
             ELSE IF Get(result.d, "success", FALSE)
             THEN [raised |-> FALSE, value |-> Get(result.d, "result", "")]
             ELSE [raised |-> FALSE,
                   value |-> "Error: " \o Get(result.d, "error", "Unknown error")]

\* The body of the try block: returns a value or raises
HttpAttempt(endpoint, reply) ==
    IF reply.kind = "exception"
    THEN [raised |-> TRUE, value |-> reply.msg]
    ELSE IF reply.status \notin 200..299
    THEN [raised |-> TRUE, value |-> StatusMessage(reply.status, endpoint)]
    ELSE IF JsonLoads(reply.body).raised
    THEN JsonLoads(reply.body)
    ELSE LET result == JsonLoads(reply.body).value
         IN  IF result.py # "dict"
             THEN [raised |-> TRUE, value |-> "'list' object has no attribute 'get'"]
             ELSE IF Get(result.d, "success", TRUE)
             THEN [raised |-> FALSE, value |-> Get(result.d, "result", "")]
             ELSE [raised |-> FALSE,
                   value |-> "Error: " \o Get(result.d, "error", "Unknown error")]

\* _call_http_tool(endpoint, data): except Exception turns what the try
\* block raises into a returned string
CallHttpTool(endpoint, reply) ==
    IF HttpAttempt(endpoint, reply).raised
    THEN [raised |-> FALSE,
          value |-> "Error calling " \o endpoint \o ": " \o HttpAttempt(endpoint, reply).value]
    ELSE HttpAttempt(endpoint, reply)

\* _web_search(query)
WebSearch(query, reply) == CallHttpTool("web-search", reply)

\* _calculate_expression taking numbers[0]
CalculateExpressionFirst(expression, reply) ==
    LET content == CallHttpTool("calculator", reply)
    IN  IF content.raised THEN content
        ELSE LET numbers == NumbersFindAll(content.value, 1)
             IN  IF numbers # <<>>
                 THEN [raised |-> FALSE, value |-> Float(numbers[1])]
                 ELSE [raised |-> TRUE,
                       value |-> "No numeric result in: " \o content.value]

\* _calculate_expression(expression): the float of the last number of the
\* tool's text, or ValueError when the text holds none (except: raise e)
CalculateExpression(expression, reply) ==
    LET content == CallHttpTool("calculator", reply)
    IN  IF content.raised THEN content
        ELSE LET numbers == NumbersFindAll(content.value, 1)
             IN  IF numbers # <<>>
                 THEN [raised |-> FALSE, value |-> Float(numbers[Len(numbers)])]
                 ELSE [raised |-> TRUE,
                       value |-> "No numeric result in: " \o content.value]

(***************************************************************************)
(* Stage functions of the pipeline (the parts that do not wait)            *)
(***************************************************************************)
\* _log, _log_node, _log_llm, _log_mcp: the printed line without its timestamp
LogLine(message, level) == level \o ": " \o message
LogNode(node, status) ==
    LogLine("[NODE] LangGraph Node '" \o node \o "' " \o status, "NODE")
LogLlm(action) == LogLine("[LLM] " \o action, "LLM")
LogMcp(tool, action) == LogLine("[MCP] " \o tool \o ": " \o action, "MCP")

\* The lines _call_http_tool prints for one call
HttpLog(endpoint, reply) ==
    << LogLine("[HTTP] Calling endpoint: " \o endpoint, "INFO"),
       IF HttpAttempt(endpoint, reply).raised
       THEN LogLine("[HTTP] Tool " \o endpoint \o " FAILED - "
                    \o HttpAttempt(endpoint, reply).value, "INFO")
       ELSE IF Get(JsonLoads(reply.body).value.d, "success", TRUE)
       THEN LogLine("[HTTP] Tool " \o endpoint \o " SUCCESS", "INFO")
       ELSE LogLine("[HTTP] Tool " \o endpoint \o " FAILED - "
                    \o Get(JsonLoads(reply.body).value.d, "error", "Unknown error"), "INFO") >>

\* The except branch of _analyze_problem
\* The fallback with the approach of a bottom-up prompt
FallbackBottomUp ==
    PyDict([target |-> "Unknown estimation target",
            factors |-> <<"Population", "Market size", "Usage patterns">>,
            research_needs |-> <<"Current market data", "Demographics">>,
            approach |-> "Bottom-up estimation"])

FallbackAnalysis ==
    PyDict([target |-> "Unknown estimation target",
            factors |-> <<"Population", "Market size", "Usage patterns">>,
            research_needs |-> <<"Current market data", "Demographics">>,
            approach |-> "Top-down estimation"])

\* try: analysis = json.loads(response.content)  except: analysis = {...}
AnalysisOf(content) ==
    IF JsonLoads(content).raised THEN FallbackAnalysis ELSE JsonLoads(content).value

\* Limit to 3 searches
\* A loop that takes one need more
SearchLimitPlusOne == 3 + 1

SearchLimit == 3

\* any(op in step for op in ['+', '-', '*', '/', 'sqrt'])
StepOps == {"+", "-", "*", "/", "sqrt"}
\* The test with a shorter list of operators
HasPlusOrTimes(step) == \E op \in {"+", "*"} : Contains(step, op)

HasOperator(step) == \E op \in StepOps : Contains(step, op)

\* The loop without its "if expr:"
AnyExpr(expr) == TRUE

\* if expr: (None and '' are false)
Truthy(expr) == expr # None /\ expr # ""

\* calculations[-1].get("result", "No result"), or the fallback of an empty list
FinalResult(calculations) ==
    IF calculations # <<>>
    THEN Get(calculations[Len(calculations)], "result", PyStr("No result"))
    ELSE PyStr("No calculations performed")

\* f"- {calc['expression']} = {calc.get('result', 'Error')}"
CalcLine(calc) ==
    "- " \o calc.expression \o " = " \o Fmt(Get(calc, "result", PyStr("Error")))

Indent == "        "

\* The problem _finalize renders
ReportedProblem(state) == state.problem

\* The f-string of _finalize
FinalAnswer(state) ==
    "\n" \o Indent \o "GUESSTIMATE SOLUTION\n" \o Indent \o "\n"
    \o Indent \o "Problem: " \o ReportedProblem(state) \o "\n" \o Indent \o "\n"
    \o Indent \o "Final Estimate: " \o Fmt(state.final_estimate) \o "\n" \o Indent \o "\n"
    \o Indent \o "Analysis: " \o state.analysis.d.target \o "\n" \o Indent \o "\n"
    \o Indent \o "Key Calculations:\n"
    \o Indent \o JoinLines([i \in 1..Len(Get(state, "calculations", <<>>)) |->
                              CalcLine(Get(state, "calculations", <<>>)[i])])
    \o "\n" \o Indent \o "\n"
    \o Indent \o "Validation: " \o state.validation \o "\n" \o Indent

\* The exception _finalize raises for a state, "" if none:
\* state["analysis"]["target"] needs a dict with that key
FinalizeError(state) ==
    IF state.analysis.py # "dict" THEN "list indices must be integers or slices, not str"
    ELSE IF "target" \notin DOMAIN state.analysis.d THEN "'target'"
    ELSE ""

\* The exception _research raises for a state, "" if none:
\* state["analysis"].get needs a dict
ResearchError(state) ==
    IF state.analysis.py # "dict" THEN "'list' object has no attribute 'get'"
    ELSE ""

(***************************************************************************)
(* The environment: what the callers and the external services supply     *)
(***************************************************************************)
\* Bounds of the model
MaxNeeds == 5
MaxLines == 2

Problems ==
    {"How many piano tuners are there in New York City?",
     "How many smartphones are sold globally per year?"}

Needs == {"population", "market data", "pricing"}

SeqsUpTo(S, n) == UNION {[1..k -> S] : k \in 0..n}

FullAnalysis(needs) ==
    PyDict([target |-> "Piano tuners", factors |-> <<"Population">>,
            research_needs |-> needs, approach |-> "Bottom-up"])

\* Well-formed JSON that is not the structure asked for
OddAnalyses ==
    {PyList,
     PyDict([factors |-> <<"Population">>, research_needs |-> <<"population">>,
             approach |-> "Bottom-up"]),
     PyDict([target |-> "Piano tuners", factors |-> <<"Population">>,
             approach |-> "Bottom-up"])}

\* Lines of a calculation narrative: no operator; an expression before '=';
\* the spec's priority example; an operator and no expression; a bare
\* arithmetic fragment
NarrativeLines ==
    {"This is just text", "4 * 5 = 20", "Total = 4 * sqrt(9)", "well-known", "about 7 - 2"}

OkBody(result) == JsonText(PyDict([result |-> result, success |-> TRUE]))
FailBody(error) == JsonText(PyDict([result |-> "", success |-> FALSE, error |-> error]))

\* Replies of the tool server to the calculator call, and failures to reach it
CalculatorReplies ==
    {Response(200, OkBody("2 + 3 * 4 = 14.0")),
     Response(200, FailBody("division by zero")),
     Response(200, FailBody("invalid syntax (<string>, line 1)")),
     Response(200, JsonText(PyDict([result |-> "4 * 5 = 20"]))),
     Response(200, NotJson),
     Response(404, NotJson),
     Response(500, NotJson),
     Transport("All connection attempts failed")}

SearchReplies ==
    {Response(200, OkBody("Answer: about 8 million")),
     Response(200, FailBody("search unavailable")),
     Response(200, JsonText(PyDict([result |-> "No results found"]))),
     Transport("")}

\* What the tool server answers when the search key is not configured, and a
\* failure envelope that carries the same message
ToolReplies ==
    CalculatorReplies \cup SearchReplies
    \cup {Response(200, OkBody("Error: TAVILY_API_KEY environment variable not set")),
          Response(200, FailBody("TAVILY_API_KEY environment variable not set")),
          Response(200, JsonText(PyDict(<<>>))),
          Response(201, JsonText(PyDict([result |-> "4 * 5 = 20"]))),
          Response(200, JsonText(PyDict([result |-> "", success |-> FALSE])))}

Endpoints == {"calculator", "web-search"}

\* Lines handed to the extractor: up to MaxFrags fragments in a row, and the
\* lines the documentation names
MaxFrags == 3
Fragments == {"Total", " = ", "4 * 5", " - 2", "sqrt(9)", "20"}

RECURSIVE Concat(_)
Concat(frags) == IF frags = <<>> THEN "" ELSE Head(frags) \o Concat(Tail(frags))

ExtractLines ==
    {Concat(frags) : frags \in SeqsUpTo(Fragments, MaxFrags)}
    \cup {"Total = 4 * sqrt(9)", "4 * sqrt(9) = 12", "This is just text",
          "10 - 2 - 3 = 5", "2 = 4 * 5 = 20"}

\* Direct calls of _call_http_tool in one behaviour
MaxToolCalls == 2

\* The environments of a run: "research" varies the research needs and lets
\* searches fail, "calc" varies the analysis and the calculation narrative,
\* "tools" varies the replies of the tool server, "pair" is two concurrent
\* solve() calls with few replies
EnvAnalyses(e) ==
    CASE e = "research" ->
           {JsonText(FullAnalysis(needs)) : needs \in SeqsUpTo(Needs, MaxNeeds)}
      [] e = "calc" ->
           {NotJson, JsonText(FullAnalysis(<<>>))} \cup {JsonText(a) : a \in OddAnalyses}
      [] e = "tools" ->
           {JsonText(FullAnalysis(<<"population">>)),
            JsonText(FullAnalysis(<<"population", "market data", "population">>))}
      [] OTHER ->
           {NotJson, JsonText(PyList), JsonText(FullAnalysis(<<"population">>))}

EnvSearches(e) ==
    CASE e = "research" -> {Response(200, OkBody("Answer: about 8 million")), Transport("")}
      [] e = "tools" -> SearchReplies
      [] OTHER -> {Response(200, OkBody("Answer: about 8 million"))}

EnvNarratives(e) ==
    CASE e = "calc" -> {JoinLines(ls) : ls \in SeqsUpTo(NarrativeLines, MaxLines)}
      [] e = "pair" -> {"This is just text\nwell-known", "4 * 5 = 20"}
      [] OTHER -> {"4 * 5 = 20"}

EnvCalculators(e) ==
    CASE e = "research" -> {Response(200, OkBody("2 + 3 * 4 = 14.0"))}
      [] e = "pair" -> {Response(200, OkBody("2 + 3 * 4 = 14.0")),
                        Response(200, FailBody("division by zero"))}
      [] e = "calc" -> {Response(200, OkBody("2 + 3 * 4 = 14.0")),
                        Response(200, FailBody("division by zero")),
                        Response(404, NotJson)}
      [] OTHER -> CalculatorReplies

EnvValidations(e) == {"Looks reasonable."}

EnvProblems(e) ==
    IF e = "research" THEN {"How many piano tuners are there in New York City?"}
    ELSE Problems

\* The number of solve() calls the caller makes
EnvCalls(e) == CASE e = "pair" -> 2 [] e = "unit" -> 0 [] OTHER -> 1

(***************************************************************************)
(* State                                                                   *)
(***************************************************************************)
\* The solve() invocations
Runs == {1, 2}

VARIABLES
    env,    \* the environment of this behaviour
    calls,  \* solve() calls the caller has still to make
    pc,     \* pc[r]: where invocation r is: a node of the graph, or idle, end, done, raised
    st,     \* st[s]: the RunState dict s, a function from its keys
    loc,    \* loc[r]: the local variables of the node invocation r is in
    log,    \* log[r]: the lines invocation r has printed
    ret,    \* ret[r]: what solve() returned or raised
    inp,    \* inp[r]: the problem and the replies invocation r has received, in order
    unit,   \* direct calls of a helper, outside any run: <<[args, out], ...>>
    notes   \* the notes dict of the MCP server

vars == <<env, calls, pc, st, loc, log, ret, inp, unit, notes>>

NoLocals == [i |-> 0]
NoReturn == [kind |-> "none", value |-> ""]

\* One state dict kept on the solver object and used by every invocation
SharedStateOf(r) == 1

\* The dict invocation r works on: initial_state, made by its own solve() call
StateOf(r) == r

Emit(r, lines) == log' = [log EXCEPT ![r] = @ \o lines]

Receive(r, reply) == inp' = [inp EXCEPT ![r] = Append(@, reply)]

\* An exception leaves the node, the graph and solve()
Raise(r, message) ==
    /\ pc' = [pc EXCEPT ![r] = "raised"]
    /\ ret' = [ret EXCEPT ![r] = [kind |-> "raise", value |-> message]]
    /\ loc' = [loc EXCEPT ![r] = NoLocals]

InitFor(e) ==
    /\ env = e
    /\ calls = EnvCalls(e)
    /\ pc = [r \in Runs |-> "idle"]
    /\ st = [r \in Runs |-> <<>>]
    /\ loc = [r \in Runs |-> NoLocals]
    /\ log = [r \in Runs |-> <<>>]
    /\ ret = [r \in Runs |-> NoReturn]
    /\ inp = [r \in Runs |-> <<>>]
    /\ unit = <<>>
    /\ notes = <<>>

Init == \E e \in {"research", "calc", "tools"} : InitFor(e)

(***************************************************************************)
(* Operations                                                              *)
(***************************************************************************)
\* solve(problem) up to graph.ainvoke(initial_state)
Solve(r, problem) ==
    /\ calls > 0
    /\ pc[r] = "idle"
    /\ \A q \in Runs : q < r => pc[q] # "idle"
    /\ calls' = calls - 1
    /\ st' = [st EXCEPT ![StateOf(r)] = [problem |-> problem]]
    /\ pc' = [pc EXCEPT ![r] = "analyze_problem"]
    /\ Emit(r, <<LogLine("[START] Starting LangGraph workflow for: " \o problem, "INFO")>>)
    /\ Receive(r, problem)
    /\ UNCHANGED <<env, loc, ret, unit, notes>>

\* _analyze_problem
AnalyzeProblem(r) ==
    /\ pc[r] = "analyze_problem"
    /\ \E content \in EnvAnalyses(env) :
         /\ st' = [st EXCEPT ![StateOf(r)] = DictSet(@, "analysis", AnalysisOf(content))]
         /\ Receive(r, content)
    /\ pc' = [pc EXCEPT ![r] = "research"]
    /\ Emit(r, <<LogNode("analyze_problem", "STARTED"),
                 LogLlm("Analyzing problem structure and components"),
                 LogNode("analyze_problem", "COMPLETED")>>)
    /\ UNCHANGED <<env, calls, loc, ret, unit, notes>>

\* _research up to its loop
ResearchStart(r) ==
    /\ pc[r] = "research"
    /\ Emit(r, <<LogNode("research", "STARTED")>>)
    /\ \/ /\ ResearchError(st[StateOf(r)]) # ""
          /\ Raise(r, ResearchError(st[StateOf(r)]))
       \/ /\ ResearchError(st[StateOf(r)]) = ""
          /\ loc' = [loc EXCEPT ![r] =
                       [i |-> 1,
                        needs |-> Take(Get(st[StateOf(r)].analysis.d, "research_needs", <<>>),
                                       SearchLimit),
                        research_results |-> <<>>]]
          /\ pc' = [pc EXCEPT ![r] = "research_loop"]
          /\ UNCHANGED ret
    /\ UNCHANGED <<env, calls, st, inp, unit, notes>>

\* One pass of the loop of _research: one search
ResearchSearch(r) ==
    /\ pc[r] = "research_loop"
    /\ loc[r].i <= Len(loc[r].needs)
    /\ \E reply \in EnvSearches(env) :
         LET need == loc[r].needs[loc[r].i]
             found == WebSearch(need, reply)
             entry == IF found.raised THEN "Research failed: " \o found.value
                      ELSE found.value
         IN  /\ loc' = [loc EXCEPT ![r].i = @ + 1,
                                   ![r].research_results = OrderedSet(@, need, entry)]
             /\ Emit(r, <<LogLine("[SEARCH] Web Search: " \o need, "INFO"),
                          LogMcp("web-search", "Searching for: " \o need)>>
                        \o HttpLog("web-search", reply))
             /\ Receive(r, reply)
    /\ UNCHANGED <<env, calls, pc, st, ret, unit, notes>>

\* _research after its loop
ResearchEnd(r) ==
    /\ pc[r] = "research_loop"
    /\ loc[r].i > Len(loc[r].needs)
    /\ st' = [st EXCEPT ![StateOf(r)] = DictSet(@, "research", loc[r].research_results)]
    /\ loc' = [loc EXCEPT ![r] = NoLocals]
    /\ pc' = [pc EXCEPT ![r] = "calculate"]
    /\ Emit(r, <<LogNode("research", "COMPLETED")>>)
    /\ UNCHANGED <<env, calls, ret, inp, unit, notes>>

\* _calculate up to its loop
CalculateStart(r) ==
    /\ pc[r] = "calculate"
    /\ \E content \in EnvNarratives(env) :
         /\ loc' = [loc EXCEPT ![r] =
                      [i |-> 1, calc_steps |-> SplitLines(content), calculations |-> <<>>]]
         /\ Receive(r, content)
    /\ pc' = [pc EXCEPT ![r] = "calculate_loop"]
    /\ Emit(r, <<LogNode("calculate", "STARTED"),
                 LogLlm("Generating calculation steps from analysis and research")>>)
    /\ UNCHANGED <<env, calls, st, ret, unit, notes>>

\* One pass of the loop of _calculate over a line without an operator, or
\* from which no expression is extracted
CalculateSkip(r) ==
    /\ pc[r] = "calculate_loop"
    /\ loc[r].i <= Len(loc[r].calc_steps)
    /\ LET step == loc[r].calc_steps[loc[r].i]
       IN  ~HasOperator(step) \/ ~Truthy(ExtractExpression(step))
    /\ loc' = [loc EXCEPT ![r].i = @ + 1]
    /\ UNCHANGED <<env, calls, pc, st, log, ret, inp, unit, notes>>

\* One pass of the loop of _calculate over a line with an expression: one
\* calculator call and one entry
CalculateCall(r) ==
    /\ pc[r] = "calculate_loop"
    /\ loc[r].i <= Len(loc[r].calc_steps)
    /\ LET step == loc[r].calc_steps[loc[r].i]
           expr == ExtractExpression(step)
       IN  /\ HasOperator(step)
           /\ Truthy(expr)
           /\ \E reply \in EnvCalculators(env) :
                LET result == CalculateExpression(expr, reply)
                    entry == IF result.raised
                             THEN [expression |-> step, error |-> result.value]
                             ELSE [expression |-> expr, result |-> result.value]
                IN  /\ loc' = [loc EXCEPT ![r].i = @ + 1,
                                          ![r].calculations = Append(@, entry)]
                    /\ Emit(r, <<LogMcp("calculator", "Calculating: " \o expr)>>
                               \o HttpLog("calculator", reply)
                               \o <<IF result.raised
                                    THEN LogMcp("calculator", "FAILED - " \o result.value)
                                    ELSE LogMcp("calculator",
                                                "SUCCESS - Result: " \o Fmt(result.value))>>)
                    /\ Receive(r, reply)
    /\ UNCHANGED <<env, calls, pc, st, ret, unit, notes>>

\* _calculate after its loop
CalculateEnd(r) ==
    /\ pc[r] = "calculate_loop"
    /\ loc[r].i > Len(loc[r].calc_steps)
    /\ st' = [st EXCEPT ![StateOf(r)] = DictSet(@, "calculations", loc[r].calculations)]
    /\ loc' = [loc EXCEPT ![r] = NoLocals]
    /\ pc' = [pc EXCEPT ![r] = "validate"]
    /\ Emit(r, <<LogNode("calculate", "COMPLETED")>>)
    /\ UNCHANGED <<env, calls, ret, inp, unit, notes>>

\* _validate
Validate(r) ==
    /\ pc[r] = "validate"
    /\ \E content \in EnvValidations(env) :
         /\ st' = [st EXCEPT ![StateOf(r)] =
                     DictSet(DictSet(@, "validation", content),
                             "final_estimate", FinalResult(@.calculations))]
         /\ Receive(r, content)
    /\ pc' = [pc EXCEPT ![r] = "finalize"]
    /\ Emit(r, <<LogNode("validate", "STARTED"),
                 LogLlm("Validating results and checking reasonableness"),
                 LogNode("validate", "COMPLETED")>>)
    /\ UNCHANGED <<env, calls, loc, ret, unit, notes>>

\* _finalize
Finalize(r) ==
    /\ pc[r] = "finalize"
    /\ \/ /\ FinalizeError(st[StateOf(r)]) # ""
          /\ Raise(r, FinalizeError(st[StateOf(r)]))
          /\ Emit(r, <<LogNode("finalize", "STARTED")>>)
          /\ UNCHANGED st
       \/ /\ FinalizeError(st[StateOf(r)]) = ""
          /\ st' = [st EXCEPT ![StateOf(r)] = DictSet(@, "final_answer", FinalAnswer(@))]
          /\ pc' = [pc EXCEPT ![r] = "end"]
          /\ Emit(r, <<LogNode("finalize", "STARTED"), LogNode("finalize", "COMPLETED")>>)
          /\ UNCHANGED <<loc, ret>>
    /\ UNCHANGED <<env, calls, inp, unit, notes>>

\* solve() after graph.ainvoke: return result["final_answer"]
SolveReturn(r) ==
    /\ pc[r] = "end"
    /\ pc' = [pc EXCEPT ![r] = "done"]
    /\ ret' = [ret EXCEPT ![r] = [kind |-> "return", value |-> st[StateOf(r)].final_answer]]
    /\ Emit(r, <<LogLine("[COMPLETE] LangGraph workflow completed successfully", "INFO")>>)
    /\ UNCHANGED <<env, calls, st, loc, inp, unit, notes>>

Next ==
    \E r \in Runs :
        \/ \E problem \in EnvProblems(env) : Solve(r, problem)
        \/ AnalyzeProblem(r)
        \/ ResearchStart(r)
        \/ ResearchSearch(r)
        \/ ResearchEnd(r)
        \/ CalculateStart(r)
        \/ CalculateSkip(r)
        \/ CalculateCall(r)
        \/ CalculateEnd(r)
        \/ Validate(r)
        \/ Finalize(r)
        \/ SolveReturn(r)

Spec == Init /\ [][Next]_vars

\* Two solve() calls whose nodes interleave
InitPair == InitFor("pair")
SpecPair == InitPair /\ [][Next]_vars

\* _extract_expression(text), called on its own
ExtractCall ==
    /\ unit = <<>>
    /\ \E text \in ExtractLines :
         unit' = <<[op |-> "_extract_expression", args |-> text,
                    out |-> ExtractExpression(text)]>>
    /\ UNCHANGED <<env, calls, pc, st, loc, log, ret, inp, notes>>

InitUnit == InitFor("unit")
NextExtract == ExtractCall
SpecExtract == InitUnit /\ [][NextExtract]_vars

\* _call_http_tool(endpoint, data), called on its own, with the reply of the
\* server
ToolCall ==
    /\ Len(unit) < MaxToolCalls
    /\ \E endpoint \in Endpoints, reply \in ToolReplies :
         unit' = Append(unit, [op |-> "_call_http_tool",
                               args |-> [endpoint |-> endpoint, reply |-> reply],
                               out |-> CallHttpTool(endpoint, reply)])
    /\ UNCHANGED <<env, calls, pc, st, loc, log, ret, inp, notes>>

NextTool == ToolCall
SpecTool == InitUnit /\ [][NextTool]_vars

(***************************************************************************)
(* The HTTP tool server: guesstimatemcp/http_server.py                     *)
(***************************************************************************)
\* set('0123456789+-*/.()% sqrt')
AllowedChars == Digits \cup {"+", "-", "*", "/", ".", "(", ")", "%", " ", "s", "q", "r", "t"}

\* Expressions sent to the calculator
Expressions ==
    {"4 * 5", "2 + 3 * 4", "4 * sqrt(9)", "10 / 4", "1 / 0", "2 +", "sqrt(-1)",
     "4 * 5 = 20", "2 ** x"}

\* eval(expression.replace('sqrt', 'math.sqrt'), safe_dict): the repr of the
\* value, or the message of the exception
Eval(expression) ==
    CASE expression = "4 * 5" -> [raised |-> FALSE, value |-> "20"]
      [] expression = "2 + 3 * 4" -> [raised |-> FALSE, value |-> "14"]
      [] expression = "4 * sqrt(9)" -> [raised |-> FALSE, value |-> "12.0"]
      [] expression = "10 / 4" -> [raised |-> FALSE, value |-> "2.5"]
      [] expression = "1 / 0" -> [raised |-> TRUE, value |-> "division by zero"]
      [] expression = "sqrt(-1)" -> [raised |-> TRUE, value |-> "math domain error"]
      [] OTHER -> [raised |-> TRUE, value |-> "invalid syntax (<string>, line 1)"]

\* calculate(expression)
Calculate(expression) ==
    IF \E k \in 1..Len(expression) : Char(expression, k) \notin AllowedChars
    THEN [raised |-> TRUE, value |-> "Invalid characters in expression"]
    ELSE Eval(expression)

\* ToolResponse(result, success=True, error=None)
ToolResponse(result, success, error) ==
    [result |-> result, success |-> success, error |-> error]

\* calculator_tool(request)
CalculatorTool(expression) ==
    IF Calculate(expression).raised
    THEN ToolResponse("", FALSE, Calculate(expression).value)
    ELSE ToolResponse(expression \o " = " \o Calculate(expression).value, TRUE, None)

\* os.getenv("TAVILY_API_KEY")
ApiKeys == {None, "", "tvly-key"}

TavilyUrl == "https://api.tavily.com/search"

TavilyStatusMessage(status) ==
    (IF status = 401 THEN "Client error '401 Unauthorized'"
     ELSE "Server error '500 Internal Server Error'")
    \o " for url '" \o TavilyUrl \o "'"

\* sep.join(parts)
RECURSIVE Join(_, _)
Join(parts, sep) ==
    IF parts = <<>> THEN ""
    ELSE IF Len(parts) = 1 THEN parts[1]
    ELSE parts[1] \o sep \o Join(Tail(parts), sep)

\* What the Tavily API answers
Hit(title) == [title |-> title, url |-> "https://example.org/" \o title,
               content |-> "About " \o title]

TavilyReplies ==
    {Response(200, JsonText(PyDict([answer |-> "about 8 million",
                                    results |-> <<Hit("census")>>]))),
     Response(200, JsonText(PyDict([answer |-> "", results |-> <<Hit("census"), Hit("atlas")>>]))),
     Response(200, JsonText(PyDict([results |-> <<>>]))),
     Response(200, NotJson),
     Response(401, NotJson),
     Response(500, NotJson),
     Transport("All connection attempts failed")}

\* tavily_search(query): the text it returns; it catches what the request raises
TavilySearch(query, key, reply) ==
    IF key = None \/ key = "" THEN "Error: TAVILY_API_KEY environment variable not set"
    ELSE IF reply.kind = "exception" THEN "Search error: " \o reply.msg
    ELSE IF reply.status \notin 200..299
    THEN "Search error: " \o TavilyStatusMessage(reply.status)
    ELSE IF JsonLoads(reply.body).raised THEN "Search error: " \o JsonLoads(reply.body).value
    ELSE LET data == JsonLoads(reply.body).value.d
             results == Get(data, "results", <<>>)
         IN  IF "answer" \in DOMAIN data /\ data.answer # ""
             THEN "Answer: " \o data.answer \o "\n\nSources: "
                  \o Join([i \in 1..Len(results) |-> results[i].url], ", ")
             ELSE IF results # <<>>
             THEN Join([i \in 1..Len(Take(results, 3)) |->
                          "Title: " \o results[i].title \o "\nURL: " \o results[i].url
                          \o "\nContent: "
                          \o SubSeq(results[i].content, 1,
                                    IF Len(results[i].content) < 200
                                    THEN Len(results[i].content) ELSE 200)
                          \o "..."], "\n\n")
             ELSE "No results found"

\* web_search_tool(request): tavily_search returns a text in every case, so
\* the except branch is never taken
WebSearchTool(query, key, reply) == ToolResponse(TavilySearch(query, key, reply), TRUE, None)

\* Requests handled by the server in one behaviour
MaxRequests == 2

\* POST /tools/calculator
CalculatorToolCall ==
    /\ Len(unit) < MaxRequests
    /\ \E expression \in Expressions :
         unit' = Append(unit, [op |-> "calculator_tool",
                               args |-> [expression |-> expression],
                               out |-> CalculatorTool(expression)])
    /\ UNCHANGED <<env, calls, pc, st, loc, log, ret, inp, notes>>

\* POST /tools/web-search
WebSearchToolCall ==
    /\ Len(unit) < MaxRequests
    /\ \E query \in {"population"}, key \in ApiKeys, reply \in TavilyReplies :
         unit' = Append(unit, [op |-> "web_search_tool",
                               args |-> [query |-> query, key |-> key, reply |-> reply],
                               out |-> WebSearchTool(query, key, reply)])
    /\ UNCHANGED <<env, calls, pc, st, loc, log, ret, inp, notes>>

NextServer == CalculatorToolCall \/ WebSearchToolCall
SpecServer == InitUnit /\ [][NextServer]_vars

(***************************************************************************)
(* The MCP tool server: guesstimatemcp/server.py                           *)
(***************************************************************************)
PyNone == [py |-> "None", d |-> <<>>]

\* not x, for a str or None
Not(x) == x = None \/ x = ""

\* What a client sends as name and arguments of a tool call
ToolNames == {"add-note", "calculator", "web-search", "delete-note"}

ToolArguments ==
    {PyNone, PyDict(<<>>),
     PyDict([name |-> "a", content |-> "x"]),
     PyDict([name |-> "a", content |-> "y"]),
     PyDict([name |-> "a"]),
     PyDict([name |-> "", content |-> "x"]),
     PyDict([expression |-> "4 * 5"]),
     PyDict([expression |-> "1 / 0"]),
     PyDict([expression |-> ""]),
     PyDict([query |-> "population"])}

\* A call returns a value or raises, and leaves the notes dict
Returns(text, store) == [raised |-> FALSE, value |-> text, notes |-> store]
Raises(message, store) == [raised |-> TRUE, value |-> message, notes |-> store]

\* handle_call_tool(name, arguments): sent tells whether
\* send_resource_list_changed() went through or raised (the session's stream
\* is closed), key and reply are what tavily_search finds
HandleCallTool(name, arguments, store, sent, key, reply) ==
    IF arguments.py = "None" \/ DOMAIN arguments.d = {}
    THEN Raises("Missing arguments", store)
    ELSE IF name = "add-note"
    THEN LET note_name == Get(arguments.d, "name", None)
             content == Get(arguments.d, "content", None)
         IN  IF Not(note_name) \/ Not(content)
             THEN Raises("Missing name or content", store)
             ELSE IF ~sent
             THEN Raises("BrokenResourceError", DictSet(store, note_name, content))
             ELSE Returns("Added note '" \o note_name \o "' with content: " \o content,
                          DictSet(store, note_name, content))
    ELSE IF name = "calculator"
    THEN LET expression == Get(arguments.d, "expression", None)
         IN  IF Not(expression) THEN Raises("Missing expression", store)
             ELSE IF Calculate(expression).raised
             THEN Returns("Error calculating '" \o expression \o "': "
                          \o Calculate(expression).value, store)
             ELSE Returns(expression \o " = " \o Calculate(expression).value, store)
    ELSE IF name = "web-search"
    THEN LET query == Get(arguments.d, "query", None)
         IN  IF Not(query) THEN Raises("Missing query", store)
             ELSE Returns(TavilySearch(query, key, reply), store)
    ELSE Raises("Unknown tool: " \o name, store)

\* One tools/call request to the MCP server
HandleCallToolCall ==
    /\ Len(unit) < MaxRequests
    /\ \E name \in ToolNames, arguments \in ToolArguments, sent \in BOOLEAN,
          key \in {None, "tvly-key"} :
         LET reply == Response(200, JsonText(PyDict([results |-> <<>>])))
             out == HandleCallTool(name, arguments, notes, sent, key, reply)
         IN  /\ unit' = Append(unit, [op |-> "handle_call_tool",
                                      args |-> [name |-> name, arguments |-> arguments],
                                      before |-> notes,
                                      out |-> [raised |-> out.raised, value |-> out.value]])
             /\ notes' = out.notes
    /\ UNCHANGED <<env, calls, pc, st, loc, log, ret, inp>>

NextMcp == HandleCallToolCall
SpecMcp == InitUnit /\ [][NextMcp]_vars

\* solve() run on its own, from the problem to the end, on the problem and
\* the replies inputs lists in the order the run asks for them: the state
\* dict it ends with and what it returns or raises
RECURSIVE SoloResearch(_, _, _)
SoloResearch(needs, replies, results) ==
    IF needs = <<>> THEN results
    ELSE LET found == WebSearch(Head(needs), Head(replies))
             entry == IF found.raised THEN "Research failed: " \o found.value
                      ELSE found.value
         IN  SoloResearch(Tail(needs), Tail(replies), OrderedSet(results, Head(needs), entry))

RECURSIVE SoloCalculate(_, _, _)
SoloCalculate(steps, replies, calculations) ==
    IF steps = <<>> THEN calculations
    ELSE LET step == Head(steps)
             expr == ExtractExpression(step)
         IN  IF ~HasOperator(step) \/ ~Truthy(expr)
             THEN SoloCalculate(Tail(steps), replies, calculations)
             ELSE LET result == CalculateExpression(expr, Head(replies))
                      entry == IF result.raised
                               THEN [expression |-> step, error |-> result.value]
                               ELSE [expression |-> expr, result |-> result.value]
                  IN  SoloCalculate(Tail(steps), Tail(replies), Append(calculations, entry))

Solo(inputs) ==
    LET analyzed == [problem |-> inputs[1], analysis |-> AnalysisOf(inputs[2])]
    IN  IF ResearchError(analyzed) # ""
        THEN [state |-> analyzed, ret |-> [kind |-> "raise", value |-> ResearchError(analyzed)]]
        ELSE
        LET needs == Take(Get(analyzed.analysis.d, "research_needs", <<>>), SearchLimit)
            n == Len(needs)
            calculations == SoloCalculate(SplitLines(inputs[3 + n]),
                                          SubSeq(inputs, 4 + n, Len(inputs) - 1), <<>>)
            validated == [problem |-> analyzed.problem,
                          analysis |-> analyzed.analysis,
                          research |-> SoloResearch(needs, SubSeq(inputs, 3, 2 + n), <<>>),
                          calculations |-> calculations,
                          validation |-> inputs[Len(inputs)],
                          final_estimate |-> FinalResult(calculations)]
        IN  IF FinalizeError(validated) # ""
            THEN [state |-> validated,
                  ret |-> [kind |-> "raise", value |-> FinalizeError(validated)]]
            ELSE [state |-> DictSet(validated, "final_answer", FinalAnswer(validated)),
                  ret |-> [kind |-> "return", value |-> FinalAnswer(validated)]]

(***************************************************************************)
(* Properties                                                              *)
(***************************************************************************)
Ended(r) == pc[r] \in {"done", "raised"}

RunState(r) == st[StateOf(r)]

\* The [NODE] lines of a log
NodeLines(lines) == SelectSeq(lines, LAMBDA l : SubSeq(l, 1, 5) = "NODE:")

StageNames == <<"analyze_problem", "research", "calculate", "validate", "finalize">>

\* The [NODE] lines of a run that went through the five stages in order
StageOrderLog ==
    [k \in 1..10 |-> LogNode(StageNames[(k + 1) \div 2],
                             IF k % 2 = 1 THEN "STARTED" ELSE "COMPLETED")]

HasResult(calc) == "result" \in DOMAIN calc

NoSuccess(calculations) == \A i \in 1..Len(calculations) : ~HasResult(calculations[i])

\* C1: every run of solve() that has ended went through the five stages once
\* each, in the order analyze, research, calculate, validate, finalize, ended
\* done, and holds final_answer.
C1_EveryRunAllStagesInOrder ==
    \A r \in Runs :
        Ended(r) =>
            /\ pc[r] = "done"
            /\ NodeLines(log[r]) = StageOrderLog
            /\ "final_answer" \in DOMAIN RunState(r)

\* C2: every solve(p) that has ended returned a report that contains p.
C2_ReportContainsProblem ==
    \A r \in Runs :
        Ended(r) =>
            /\ ret[r].kind = "return"
            /\ Contains(ret[r].value, inp[r][1])

\* C3: with a completion text for every request, no stage raises, whatever
\* analysis analyze wrote.
C3_NoStageRaises == \A r \in Runs : pc[r] # "raised"

FirstPos(seq, x) == First(1, Len(seq), LAMBDA j : seq[j] = x)

\* C4: after the research stage research has at most 3 entries, keyed by the
\* first 3 research_needs in their order: every key is one of them, each of
\* them is a key, no key twice, keys in the order of the needs, and 3
\* distinct leading needs give exactly those 3 keys.
C4_ResearchFirstThreeNeeds ==
    \A r \in Runs :
        "research" \in DOMAIN RunState(r) =>
            LET needs == Get(RunState(r).analysis.d, "research_needs", <<>>)
                n == IF Len(needs) < 3 THEN Len(needs) ELSE 3
                research == RunState(r).research
                key(i) == research[i][1]
            IN  /\ Len(research) <= 3
                /\ \A i \in 1..Len(research) : \E j \in 1..n : key(i) = needs[j]
                /\ \A j \in 1..n : \E i \in 1..Len(research) : key(i) = needs[j]
                /\ \A i, k \in 1..Len(research) :
                      i < k => /\ key(i) # key(k)
                               /\ FirstPos(needs, key(i)) < FirstPos(needs, key(k))
                /\ (\A i, k \in 1..n : i # k => needs[i] # needs[k])
                      => [i \in 1..Len(research) |-> key(i)] = SubSeq(needs, 1, n)

\* C4 witness: 5 needs were proposed and research holds the first 3, in order
C4_Witness ==
    \E r \in Runs :
        /\ "research" \in DOMAIN RunState(r)
        /\ Len(Get(RunState(r).analysis.d, "research_needs", <<>>)) = 5
        /\ Keys(RunState(r).research) = SubSeq(RunState(r).analysis.d.research_needs, 1, 3)
        /\ Len(RunState(r).research) = 3

\* C5: when no calculation succeeded (calculations is empty or
\* holds only failure entries), final_estimate after validate is
\* "No calculations performed", and solve does not raise and returns a
\* non-empty report.
C5_AllFailedGivesDocumentedSentinel ==
    \A r \in Runs :
        ("final_estimate" \in DOMAIN RunState(r) /\ NoSuccess(RunState(r).calculations))
            => /\ RunState(r).final_estimate = PyStr("No calculations performed")
               /\ pc[r] # "raised"
               /\ pc[r] = "done" => ret[r].kind = "return" /\ Len(ret[r].value) > 0

\* The last entry of calculations that has a result, 0 if none
LastSuccess(calculations) ==
    IF NoSuccess(calculations) THEN 0
    ELSE CHOOSE i \in 1..Len(calculations) :
            /\ HasResult(calculations[i])
            /\ \A k \in (i + 1)..Len(calculations) : ~HasResult(calculations[k])

\* C6: after validate final_estimate is the result of the last
\* successful entry, even if failure entries follow it, and a sentinel string
\* only if there is no successful entry.
C6_LastSuccessfulResult ==
    \A r \in Runs :
        "final_estimate" \in DOMAIN RunState(r) =>
            LET calculations == RunState(r).calculations
            IN  IF LastSuccess(calculations) # 0
                THEN RunState(r).final_estimate = calculations[LastSuccess(calculations)].result
                ELSE RunState(r).final_estimate.py = "str"

\* C9: when json.loads rejects the completion of stage 1, analyze does not
\* raise and writes exactly the fixed fallback analysis, and the research
\* stage that follows searches for the two fallback needs.
C9_FallbackAnalysis ==
    \A r \in Runs :
        (Len(inp[r]) >= 2 /\ ~inp[r][2].wellformed) =>
            /\ pc[r] \notin {"idle", "analyze_problem", "raised"}
            /\ "analysis" \in DOMAIN RunState(r)
            /\ RunState(r).analysis.py = "dict"
            /\ RunState(r).analysis.d =
                  [target |-> "Unknown estimation target",
                   factors |-> <<"Population", "Market size", "Usage patterns">>,
                   research_needs |-> <<"Current market data", "Demographics">>,
                   approach |-> "Top-down estimation"]
            /\ pc[r] = "research_loop" =>
                  loc[r].needs = <<"Current market data", "Demographics">>
            /\ "research" \in DOMAIN RunState(r) =>
                  Keys(RunState(r).research) = <<"Current market data", "Demographics">>

\* C9 witness: the completion of stage 1 was not JSON and research is done
C9_Witness ==
    \E r \in Runs :
        /\ Len(inp[r]) >= 2
        /\ ~inp[r][2].wellformed
        /\ "research" \in DOMAIN RunState(r)
        /\ Len(RunState(r).research) = 2
        /\ RunState(r).analysis.d.approach = "Top-down estimation"

\* The outcome the server or the network gave a tool call
Failed(reply) ==
    \/ reply.kind = "exception"
    \/ reply.status \notin 200..299
    \/ /\ reply.body.wellformed
       /\ reply.body.value.py = "dict"
       /\ ~Get(reply.body.value.d, "success", TRUE)

Succeeded(reply) ==
    /\ reply.kind = "response"
    /\ reply.status \in 200..299
    /\ reply.body.wellformed
    /\ reply.body.value.py = "dict"
    /\ Get(reply.body.value.d, "success", TRUE)

\* C7: _call_http_tool never raises, and what it returns for a transport
\* failure, a non-2xx response or an envelope with success=false differs from
\* what it returns for any success payload, so that the caller can tell the
\* two apart.
C7_FailureOutcomeTellsApart ==
    \A i \in DOMAIN unit :
        /\ ~unit[i].out.raised
        /\ \A j \in DOMAIN unit :
              (Failed(unit[i].args.reply) /\ Succeeded(unit[j].args.reply))
                  => unit[i].out.value # unit[j].out.value

\* The maximal runs of characters of the '=' pattern's class that end right
\* before an '=' sign, as <<first, last>>
EqualsForms(text) ==
    {b \in (1..Len(text)) \X (1..Len(text)) :
        /\ b[1] <= b[2]
        /\ \A k \in b[1]..b[2] : Char(text, k) \in EqualsClass
        /\ b[1] = 1 \/ Char(text, b[1] - 1) \notin EqualsClass
        /\ b[2] < Len(text)
        /\ Char(text, b[2] + 1) = "="}

AcceptedForms(text) ==
    {b \in EqualsForms(text) : EqualsAccepts(Strip(SubSeq(text, b[1], b[2])))}

\* C8: the extractor returns the '='-preceding form whenever the line
\* has one, in preference to a bare arithmetic fragment or a bare sqrt call,
\* and for "Total = 4 * sqrt(9)" it returns the '='-preceding form and neither
\* fallback.
C8_EqualsFormOfTheExample ==
    \A i \in DOMAIN unit :
        LET text == unit[i].args
            out == unit[i].out
        IN  /\ AcceptedForms(text) # {} =>
                  \E b \in AcceptedForms(text) : out = Strip(SubSeq(text, b[1], b[2]))
            /\ text = "Total = 4 * sqrt(9)" =>
                  /\ out # None
                  /\ out # Family2(text)
                  /\ out # Family3(text)

\* C8 amended: the families are tried in strict priority order.  The
\* '='-preceding form (a run of the pattern's characters right before '=',
\* longer than one character, holding '+', '*', '/' or sqrt; '-' alone does
\* not count) is returned, the leftmost one, whenever the line has one;
\* otherwise the first bare arithmetic fragment, otherwise the first bare
\* sqrt call, otherwise nothing.  In "Total = 4 * sqrt(9)" no expression
\* precedes the '=' and the result is the bare sqrt call "sqrt(9)";
\* "4 * sqrt(9) = 12" gives "4 * sqrt(9)".
C8_StrictPriority ==
    \A i \in DOMAIN unit :
        LET text == unit[i].args
            out == unit[i].out
            accepted == AcceptedForms(text)
        IN  /\ accepted # {} =>
                  \E b \in accepted :
                      /\ \A c \in accepted : b[1] <= c[1]
                      /\ out = Strip(SubSeq(text, b[1], b[2]))
            /\ accepted = {} =>
                  out = IF Family2(text) # None THEN Family2(text) ELSE Family3(text)
            /\ text = "Total = 4 * sqrt(9)" => out = "sqrt(9)"
            /\ text = "4 * sqrt(9) = 12" => out = "4 * sqrt(9)"
            /\ text = "This is just text" => out = None

\* C8 witness: a line that holds a '='-preceding form and, left of it, a
\* bare arithmetic fragment that is not the result
C8_Witness ==
    \E i \in DOMAIN unit :
        /\ AcceptedForms(unit[i].args) # {}
        /\ Family2(unit[i].args) # None
        /\ unit[i].out # Family2(unit[i].args)

\* The keys a state dict holds when its run is at a node
FieldsAt(node) ==
    CASE node = "analyze_problem" -> {"problem"}
      [] node \in {"research", "research_loop"} -> {"problem", "analysis"}
      [] node \in {"calculate", "calculate_loop"} -> {"problem", "analysis", "research"}
      [] node = "validate" -> {"problem", "analysis", "research", "calculations"}
      [] node = "finalize" -> {"problem", "analysis", "research", "calculations",
                               "validation", "final_estimate"}
      [] OTHER -> {"problem", "analysis", "research", "calculations", "validation",
                   "final_estimate", "final_answer"}

\* C10: two solve() invocations whose nodes interleave do not interfere: at
\* every point each run's state dict holds its own problem and the fields of
\* the stages it has completed, and when a run has ended its state dict and
\* what it returned or raised are those of the same run made alone on the
\* same completions and tool replies.
C10_InterleavedRunsIndependent ==
    \A r \in Runs :
        /\ pc[r] \notin {"idle", "raised"} =>
              /\ DOMAIN RunState(r) = FieldsAt(pc[r])
              /\ RunState(r).problem = inp[r][1]
        /\ (pc[r] \notin {"idle", "raised"} /\ "analysis" \in DOMAIN RunState(r)) =>
              RunState(r).analysis = AnalysisOf(inp[r][2])
        /\ Ended(r) =>
              /\ RunState(r) = Solo(inp[r]).state
              /\ ret[r] = Solo(inp[r]).ret

\* C10 witness: the second invocation started after the first and has
\* returned while the first is still in its calculate stage, and the two
\* worked on different problems
C10_Witness ==
    /\ pc[2] = "done"
    /\ pc[1] = "calculate_loop"
    /\ inp[1][1] # inp[2][1]
    /\ Len(RunState(2).calculations) > 0
    /\ ret[2].value = RunState(2).final_answer

\* The fields the node a run is at writes
WrittenBy(node) ==
    CASE node = "idle" -> {"problem"}
      [] node = "analyze_problem" -> {"analysis"}
      [] node \in {"research", "research_loop"} -> {"research"}
      [] node \in {"calculate", "calculate_loop"} -> {"calculations"}
      [] node = "validate" -> {"validation", "final_estimate"}
      [] node = "finalize" -> {"final_answer"}
      [] OTHER -> {}

\* C11: the fields of a state dict are additive only: in every step every
\* field that is there stays, with its value (problem included), and the
\* fields a step adds are none or exactly those of the stage the run is in
\* (analyze: analysis; research: research; calculate: calculations; validate:
\* validation and final_estimate; finalize: final_answer).
C11_FieldsAdditiveOnly ==
    [][\A r \in Runs :
          LET old == st[StateOf(r)]
              new == st'[StateOf(r)]
          IN  /\ DOMAIN old \subseteq DOMAIN new
              /\ \A k \in DOMAIN old : new[k] = old[k]
              /\ (DOMAIN new \ DOMAIN old) \in {{}, WrittenBy(pc[r])}]_vars

\* C11 witness: a run that ended done holds the seven fields, problem as given
C11_Witness ==
    \E r \in Runs :
        /\ pc[r] = "done"
        /\ DOMAIN RunState(r) = {"problem", "analysis", "research", "calculations",
                                 "validation", "final_estimate", "final_answer"}
        /\ RunState(r).problem = inp[r][1]
        /\ RunState(r).calculations # <<>>

\* The needs the research stage of a run looks up, and the reply to its
\* j-th lookup
SearchedNeeds(r) ==
    LET needs == Get(RunState(r).analysis.d, "research_needs", <<>>)
    IN  SubSeq(needs, 1, IF Len(needs) < 3 THEN Len(needs) ELSE 3)

SearchReply(r, j) == inp[r][2 + j]

\* The last lookup made for a need text
LastLookup(needs, need) ==
    CHOOSE j \in 1..Len(needs) :
        /\ needs[j] = need
        /\ \A k \in (j + 1)..Len(needs) : needs[k] # need

\* C12: after the research stage every need among the first 3 has been
\* looked up and has an entry, whatever combination of the lookups failed:
\* the entry of a need holds an error string ("Error...") when the (last)
\* lookup for it failed and the result text when it succeeded, independently
\* of the outcome of the other lookups; a failed lookup does not make the
\* research stage raise.
C12_FailedLookupIsolated ==
    \A r \in Runs :
        /\ "research" \in DOMAIN RunState(r) =>
              LET needs == SearchedNeeds(r)
                  research == RunState(r).research
              IN  /\ Len(inp[r]) >= 2 + Len(needs)
                  /\ \A j \in 1..Len(needs) :
                        \E i \in 1..Len(research) : research[i][1] = needs[j]
                  /\ \A i \in 1..Len(research) :
                        LET reply == SearchReply(r, LastLookup(needs, research[i][1]))
                        IN  IF Failed(reply)
                            THEN SubSeq(research[i][2], 1, 5) = "Error"
                            ELSE research[i][2] = Get(reply.body.value.d, "result", "")
        /\ (pc[r] = "raised" /\ Len(inp[r]) > 2) => "research" \in DOMAIN RunState(r)

\* C12 witness: three different needs, the first and the third lookup failed,
\* the second succeeded, and the stage has completed with three entries
C12_Witness ==
    \E r \in Runs :
        /\ "research" \in DOMAIN RunState(r)
        /\ Len(RunState(r).research) = 3
        /\ Failed(SearchReply(r, 1))
        /\ Succeeded(SearchReply(r, 2))
        /\ Failed(SearchReply(r, 3))
        /\ RunState(r).research[2][2] = "Answer: about 8 million"
        /\ pc[r] = "calculate"

\* The completion of the calculation prompt a run received, and the replies
\* to its calculator calls, in order
Narrative(r) == inp[r][3 + Len(SearchedNeeds(r))]

CalculatorReply(r, i) == inp[r][3 + Len(SearchedNeeds(r)) + i]

\* The lines of a run's narrative that hold an expression, in order
ExpressionLines(r) ==
    SelectSeq(SplitLines(Narrative(r)), LAMBDA line : Truthy(ExtractExpression(line)))

\* C13: after the calculate stage calculations holds exactly one entry per
\* line of the completion from which an expression is extracted, in the order
\* of the lines: the i-th entry is either a success entry {expression, result}
\* for the expression of the i-th such line or a failure entry
\* {expression, error} for that line; a failure entry is followed by the
\* entries of the following lines.
C13_OneEntryPerExpressionLine ==
    \A r \in Runs :
        "calculations" \in DOMAIN RunState(r) =>
            LET lines == ExpressionLines(r)
                calculations == RunState(r).calculations
            IN  /\ Len(calculations) = Len(lines)
                /\ \A i \in 1..Len(calculations) :
                      \/ /\ DOMAIN calculations[i] = {"expression", "result"}
                         /\ calculations[i].expression = ExtractExpression(lines[i])
                      \/ /\ DOMAIN calculations[i] = {"expression", "error"}
                         /\ calculations[i].expression = lines[i]

\* C13 witness: a narrative of two lines with an expression each; the call
\* for the first failed and the second line has its success entry
C13_Witness ==
    \E r \in Runs :
        /\ "calculations" \in DOMAIN RunState(r)
        /\ Len(ExpressionLines(r)) = 2
        /\ Len(RunState(r).calculations) = 2
        /\ "error" \in DOMAIN RunState(r).calculations[1]
        /\ "result" \in DOMAIN RunState(r).calculations[2]
        /\ RunState(r).calculations[2].expression = "7 - 2"

\* C14: when the calculator call made for a line failed (transport failure,
\* non-2xx response or envelope with success=false), the entry of that line
\* is a failure entry, with an error and without a result, and final_estimate
\* is not a number taken from it.
C14_FailedCallGivesFailureEntry ==
    \A r \in Runs :
        "calculations" \in DOMAIN RunState(r) =>
            LET calculations == RunState(r).calculations
            IN  /\ \A i \in 1..Len(calculations) :
                      Failed(CalculatorReply(r, i)) =>
                          /\ "error" \in DOMAIN calculations[i]
                          /\ "result" \notin DOMAIN calculations[i]
                /\ ("final_estimate" \in DOMAIN RunState(r)
                       /\ calculations # <<>>
                       /\ Failed(CalculatorReply(r, Len(calculations))))
                      => RunState(r).final_estimate.py = "str"

\* The text _call_http_tool handed back for the i-th calculator call of a run
CalculatorText(r, i) == CallHttpTool("calculator", CalculatorReply(r, i)).value

HasDigit(text) == \E k \in 1..Len(text) : Char(text, k) \in Digits

\* C15: the result of a calculator call is the float of the last substring
\* of the tool's text that matches the signed decimal-number pattern (14.0
\* for "2 + 3 * 4 = 14.0"); a text without a numeric substring makes the call
\* fail with the error "No numeric result in: <text>" and gives the line a
\* failure entry.
C15_LastNumberIsTheResult ==
    \A r \in Runs :
        "calculations" \in DOMAIN RunState(r) =>
            \A i \in 1..Len(RunState(r).calculations) :
                LET entry == RunState(r).calculations[i]
                    text == CalculatorText(r, i)
                    numbers == NumbersFindAll(text, 1)
                IN  IF HasDigit(text)
                    THEN /\ numbers # <<>>
                         /\ DOMAIN entry = {"expression", "result"}
                         /\ entry.result = Float(numbers[Len(numbers)])
                         /\ text = "2 + 3 * 4 = 14.0" => entry.result = PyFloat("14.0")
                    ELSE /\ DOMAIN entry = {"expression", "error"}
                         /\ entry.error = "No numeric result in: " \o text

\* C15 witness: one call answered "2 + 3 * 4 = 14.0" with the result 14.0 and
\* one call whose text holds no number, with its failure entry
C15_Witness ==
    \E r \in Runs :
        /\ "calculations" \in DOMAIN RunState(r)
        /\ Len(RunState(r).calculations) = 2
        /\ CalculatorText(r, 1) = "2 + 3 * 4 = 14.0"
        /\ RunState(r).calculations[1].result = PyFloat("14.0")
        /\ ~HasDigit(CalculatorText(r, 2))
        /\ "error" \in DOMAIN RunState(r).calculations[2]

\* The lines of a run's narrative for which the extractor signals absence
MissLines(r) ==
    SelectSeq(SplitLines(Narrative(r)), LAMBDA line : ExtractExpression(line) = None)

\* The calculator calls a run has made: the replies it received after the
\* narrative, the completion of the validation prompt not counted
CalculatorCalls(r) ==
    Len(inp[r]) - (3 + Len(SearchedNeeds(r)))
    - (IF "validation" \in DOMAIN RunState(r) THEN 1 ELSE 0)

\* C16: a line for which the extractor signals absence is skipped silently:
\* after the calculate stage the calculator has been called once per line
\* that is not such a miss and never for a miss, calculations holds no entry,
\* success or failure, for a miss, and a line with none of '+', '-', '*',
\* '/', 'sqrt' (such as "This is just text") is always a miss.
C16_ExtractionMissSkipped ==
    \A r \in Runs :
        "calculations" \in DOMAIN RunState(r) =>
            LET lines == SplitLines(Narrative(r))
                calculations == RunState(r).calculations
            IN  /\ CalculatorCalls(r) = Len(lines) - Len(MissLines(r))
                /\ Len(calculations) = Len(lines) - Len(MissLines(r))
                /\ \A i \in 1..Len(calculations) :
                      /\ ExtractExpression(calculations[i].expression) # None
                      /\ \A k \in 1..Len(MissLines(r)) :
                            calculations[i].expression # MissLines(r)[k]
                /\ \A k \in 1..Len(lines) :
                      (\A op \in {"+", "-", "*", "/", "sqrt"} : ~Contains(lines[k], op))
                          => ExtractExpression(lines[k]) = None

\* C16 witness: a narrative of "This is just text" and of a line with an
\* operator and no expression, after which calculations is empty
C16_Witness ==
    \E r \in Runs :
        /\ "calculations" \in DOMAIN RunState(r)
        /\ SplitLines(Narrative(r)) = <<"This is just text", "well-known">>
        /\ RunState(r).calculations = <<>>
        /\ CalculatorCalls(r) = 0

\* The tool operation of a request to the HTTP server failed: the calculator
\* rejected a character or could not evaluate; the search had no API key, or
\* its request to the search API failed
OperationFailed(call) ==
    IF call.op = "calculator_tool"
    THEN \/ \E k \in 1..Len(call.args.expression) :
              Char(call.args.expression, k) \notin AllowedChars
         \/ call.args.expression \in {"1 / 0", "2 +", "sqrt(-1)"}
    ELSE \/ call.args.key \in {None, ""}
         \/ call.args.reply.kind = "exception"
         \/ call.args.reply.status \notin 200..299

\* C17: the endpoints calculator and web-search answer every request with an
\* envelope; when the tool operation failed the envelope is
\* {success: false, result: "", error: <message>}, and success is true only
\* when the operation succeeded.
C17_ErrorEnvelopeOnFailure ==
    \A i \in DOMAIN unit :
        /\ OperationFailed(unit[i]) =>
              /\ unit[i].out.success = FALSE
              /\ unit[i].out.result = ""
              /\ unit[i].out.error # None
        /\ unit[i].out.success = TRUE => ~OperationFailed(unit[i])

\* The notes dict after the i-th request to the MCP server
NotesAfter(i) == IF i < Len(unit) THEN unit[i + 1].before ELSE notes

\* A required argument of the named tool is missing or empty
MissingArgument(name, arguments) ==
    LET missing(k) == k \notin DOMAIN arguments.d \/ arguments.d[k] = ""
    IN  CASE name = "add-note" -> missing("name") \/ missing("content")
          [] name = "calculator" -> missing("expression")
          [] name = "web-search" -> missing("query")
          [] OTHER -> FALSE

\* C18: handle_call_tool raises when arguments are missing or empty, when a
\* required argument of the named tool is missing, or when the tool name is
\* unknown, and then leaves notes unchanged; notes is changed only by an
\* add-note call that succeeds, which sets notes[name] to content; a
\* calculator evaluation failure is returned as error text, not raised.
C18_OnlySuccessfulAddNoteChangesNotes ==
    \A i \in DOMAIN unit :
        LET name == unit[i].args.name
            arguments == unit[i].args.arguments
            out == unit[i].out
            absent == arguments.py = "None" \/ DOMAIN arguments.d = {}
        IN  /\ (absent \/ MissingArgument(name, arguments)
                  \/ name \notin {"add-note", "calculator", "web-search"})
                  => out.raised /\ NotesAfter(i) = unit[i].before
            /\ NotesAfter(i) # unit[i].before =>
                  /\ name = "add-note"
                  /\ ~out.raised
                  /\ NotesAfter(i) = (arguments.d.name :> arguments.d.content) @@ unit[i].before
            /\ (name = "calculator" /\ ~absent /\ ~MissingArgument(name, arguments))
                  => ~out.raised

\* The external call a printed line announces: a completion call of a stage
\* (_log_llm precedes each ainvoke), a request to an endpoint of the tool
\* server (the first line of _call_http_tool), or none
CallOf(line) ==
    CASE line = LogLlm("Analyzing problem structure and components") -> "llm:analyze"
      [] line = LogLlm("Generating calculation steps from analysis and research") -> "llm:calculate"
      [] line = LogLlm("Validating results and checking reasonableness") -> "llm:validate"
      [] line = LogLine("[HTTP] Calling endpoint: web-search", "INFO") -> "web-search"
      [] line = LogLine("[HTTP] Calling endpoint: calculator", "INFO") -> "calculator"
      [] OTHER -> ""

\* The external calls of a run, in the order they were issued
CallOrder(r) ==
    LET called == SelectSeq(log[r], LAMBDA line : CallOf(line) # "")
    IN  [k \in 1..Len(called) |-> CallOf(called[k])]

\* The line with which _call_http_tool ends a request
IsOutcome(line) == Len(line) >= 18 /\ SubSeq(line, 1, 18) = "INFO: [HTTP] Tool "

\* The need texts of the searches of a run, in the order they were issued
SearchOrder(r) ==
    LET said == SelectSeq(log[r], LAMBDA line :
                    Len(line) >= 37
                    /\ SubSeq(line, 1, 37) = "MCP: [MCP] web-search: Searching for:")
    IN  [k \in 1..Len(said) |-> SubSeq(said[k], 39, Len(said[k]))]

Repeat(n, call) == [k \in 1..n |-> call]

\* C19: in a completed run the external calls are, in this order: the
\* completion call of analyze, then one search per need of the first three
\* research_needs in needs order, each answered before the next is issued,
\* then the completion call of calculate, then the calculator calls, at most
\* one per line of that completion and one per entry of calculations, each
\* answered before the next, then the completion call of validate, and no
\* other call: three completion calls, at most three searches, no retry.
C19_CallOrderAndCounts ==
    \A r \in Runs : pc[r] = "done" =>
        LET needs == Get(RunState(r).analysis.d, "research_needs", <<>>)
            searches == Len(SelectSeq(CallOrder(r), LAMBDA c : c = "web-search"))
            calculators == Len(SelectSeq(CallOrder(r), LAMBDA c : c = "calculator"))
        IN  /\ CallOrder(r) = <<"llm:analyze">> \o Repeat(searches, "web-search")
                               \o <<"llm:calculate">> \o Repeat(calculators, "calculator")
                               \o <<"llm:validate">>
            /\ searches <= 3
            /\ searches = (IF Len(needs) < 3 THEN Len(needs) ELSE 3)
            /\ SearchOrder(r) = SubSeq(needs, 1, searches)
            /\ calculators <= Len(SplitLines(inp[r][3 + searches]))
            /\ calculators = Len(RunState(r).calculations)
            /\ \A k \in DOMAIN log[r] :
                  CallOf(log[r][k]) \in {"web-search", "calculator"}
                  => k < Len(log[r]) /\ IsOutcome(log[r][k + 1])

\* A completed run that made three searches for more than three needs
C19_Witness ==
    \E r \in Runs :
        /\ pc[r] = "done"
        /\ Len(SelectSeq(CallOrder(r), LAMBDA c : c = "web-search")) = 3
        /\ Len(Get(RunState(r).analysis.d, "research_needs", <<>>)) > 3

\* A completed run that made two calculator calls
C19_TwoCalculatorCalls ==
    \E r \in Runs :
        /\ pc[r] = "done"
        /\ Len(SelectSeq(CallOrder(r), LAMBDA c : c = "calculator")) = 2

\* A sequence without the later occurrences of its elements
RECURSIVE Distinct(_)
Distinct(seq) ==
    IF seq = <<>> THEN <<>>
    ELSE LET front == Distinct(SubSeq(seq, 1, Len(seq) - 1))
             last == seq[Len(seq)]
         IN  IF \E i \in 1..Len(front) : front[i] = last THEN front
             ELSE Append(front, last)

\* What _research stores for a need under the reply of a search
Stored(need, reply) ==
    IF WebSearch(need, reply).raised
    THEN "Research failed: " \o WebSearch(need, reply).value
    ELSE WebSearch(need, reply).value

\* C20: research is keyed by need text: after the research stage one search
\* has been made per need of the first three research_needs, equal needs
\* included, and research holds one entry per distinct need text among them,
\* in the order of the first occurrences, each holding the result of the
\* last search made for that text; so its size is the number of distinct
\* needs among the first three, not min(3, number of needs).
C20_ResearchKeyedByNeedText ==
    \A r \in Runs : "research" \in DOMAIN RunState(r) =>
        LET needs == SearchedNeeds(r)
            research == RunState(r).research
        IN  /\ Len(SelectSeq(CallOrder(r), LAMBDA c : c = "web-search")) = Len(needs)
            /\ SearchOrder(r) = needs
            /\ Len(research) = Cardinality({needs[j] : j \in 1..Len(needs)})
            /\ Keys(research) = Distinct(needs)
            /\ \A i \in 1..Len(research) :
                  research[i][2] =
                      Stored(research[i][1],
                             SearchReply(r, LastLookup(needs, research[i][1])))

\* C20 witness: the first and the third need are the same text, the first
\* search failed and the third succeeded, and research holds two entries, the
\* first one with the result of the third search
C20_Witness ==
    \E r \in Runs :
        /\ "research" \in DOMAIN RunState(r)
        /\ LET needs == SearchedNeeds(r)
               research == RunState(r).research
           IN  /\ Len(needs) = 3
               /\ needs[1] = needs[3]
               /\ needs[2] # needs[1]
               /\ Failed(SearchReply(r, 1))
               /\ ~Failed(SearchReply(r, 3))
               /\ Len(research) = 2
               /\ research[1] = <<needs[1], Stored(needs[3], SearchReply(r, 3))>>
               /\ research[1][2] # Stored(needs[1], SearchReply(r, 1))

\* A direct call of _call_http_tool answered by a 2xx response whose body is a
\* JSON object
EnvelopeCalls ==
    {i \in DOMAIN unit :
        /\ unit[i].op = "_call_http_tool"
        /\ unit[i].args.reply.kind = "response"
        /\ unit[i].args.reply.status \in 200..299
        /\ unit[i].args.reply.body.wellformed
        /\ unit[i].args.reply.body.value.py = "dict"}

Envelope(i) == unit[i].args.reply.body.value.d

\* The line with which the call ended says FAILED
ReportedFailed(i) ==
    LET line == HttpLog(unit[i].args.endpoint, unit[i].args.reply)[2]
        head == "INFO: [HTTP] Tool " \o unit[i].args.endpoint \o " FAILED - "
    IN  Len(line) >= Len(head) /\ SubSeq(line, 1, Len(head)) = head

\* C21: _call_http_tool takes a 2xx envelope without a success field for a
\* success and returns its result field, the empty string when that is
\* absent too; of the 2xx envelopes exactly those whose success field is
\* present and false are reported as a tool failure, as "Error: <error>".
C21_AbsentSuccessMeansSuccess ==
    \A i \in EnvelopeCalls :
        /\ ~unit[i].out.raised
        /\ "success" \notin DOMAIN Envelope(i) =>
              /\ unit[i].out.value = Get(Envelope(i), "result", "")
              /\ ~ReportedFailed(i)
        /\ ReportedFailed(i) <=>
              ("success" \in DOMAIN Envelope(i) /\ Envelope(i).success = FALSE)
        /\ ReportedFailed(i) =>
              unit[i].out.value = "Error: " \o Get(Envelope(i), "error", "Unknown error")
        /\ ~ReportedFailed(i) => unit[i].out.value = Get(Envelope(i), "result", "")

\* C21 witness: one call answered by an envelope with a result and no success
\* field returned that result, and one answered by an envelope with neither
\* field returned the empty string
C21_Witness ==
    \E i, j \in EnvelopeCalls :
        /\ DOMAIN Envelope(i) = {"result"}
        /\ unit[i].out.value = Envelope(i).result
        /\ unit[i].out.value # ""
        /\ DOMAIN Envelope(j) = {}
        /\ unit[j].out.value = ""

====
